---- MODULE Spec2Model ----
(***************************************************************************)
(* Model of the per-endpoint routing engine of mcp_proxy                   *)
(* (src/mcp_proxy/proxy.py, class MCPProxy) together with the embedded     *)
(* backend wrapper (src/mcp_proxy/python_mcp.py, class PythonMCPServer).   *)
(*                                                                         *)
(* A JSON object is a record with a fixed set of fields; a key that is     *)
(* missing from the object has the value Absent, a key whose value is the  *)
(* JSON null has the value Null.  Python's None (no object at all) is      *)
(* NoneMsg.                                                                *)
(***************************************************************************)
EXTENDS Integers, Sequences, FiniteSets, TLC

\* ----------------------------------------------------------------- bounds
MaxConns == 2       \* client connection slots
MaxPipe  == 1       \* lines a child's stdin / stdout pipe holds
MaxProcs == 2       \* child processes spawned in one run
MaxCap   == 2       \* largest max_connections a proxy is constructed with

Names == {"A", "B"}
Tools == {"t1", "t2"}
Ids   == {"x", "y"}
Conns == 1..MaxConns

Absent == "absent"
Null   == "null"
Proxy  == "proxy"

\* ------------------------------------------------------------ JSON values
\* A tool entry of result.tools; origin is the backend that produced it.
Tool(t, s) == [name |-> t, origin |-> s]

Msg(j, i, m, n, b, c, tl, src, ans) ==
    [jsonrpc |-> j, id |-> i, method |-> m, name |-> n, body |-> b,
     code |-> c, tools |-> tl, src |-> src, ans |-> ans]

\* Python None: no object.
NoneMsg == Msg("None", "None", "None", "None", "None", 0, <<>>, "None", 0)
\* The empty JSON object {}.
EmptyDict == Msg(Absent, Absent, Absent, Absent, "none", 0, <<>>, "hook", 0)

\* bool(x) of an Optional[dict]
Truthy(m) == m # NoneMsg /\ m # EmptyDict

\* message.get("id")
GetId(m) == IF m.id = Absent THEN Null ELSE m.id

Request(i, m, n) == Msg("2.0", i, m, n, "none", 0, <<>>, "client", 0)

\* Optional[List[str]]
None == [present |-> FALSE, val |-> {}]
Some(S) == [present |-> TRUE, val |-> S]
\* bool(x) of an Optional[List[str]]: None and [] are both false
TruthyList(o) == o.present /\ o.val # {}

\* ---------------------------------------------------------- pure functions
\* MCPProxy._is_valid_jsonrpc_message
_is_valid_jsonrpc_message(m) ==
    IF m = NoneMsg THEN FALSE
    ELSE IF m.jsonrpc # "2.0" THEN FALSE
    ELSE IF m.method # Absent
         THEN m.body = "none"
         ELSE m.body \in {"result", "error"}

\* MCPProxy._is_valid_jsonrpc_response
_is_valid_jsonrpc_response(m) ==
    IF m = NoneMsg THEN FALSE
    ELSE IF m.jsonrpc # "2.0" THEN FALSE
    ELSE IF m.id = Absent THEN FALSE
    ELSE m.body \in {"result", "error"}

\* MCPProxy._create_error_response
_create_error_response(original_message, code) ==
    IF GetId(original_message) = Null THEN NoneMsg
    ELSE Msg("2.0", GetId(original_message), Absent, Absent, "error", code,
             <<>>, Proxy, 0)

\* A synthesized result reply {"jsonrpc": "2.0", "id": message.get("id"), "result": ...}
ResultReply(message, tl) ==
    Msg("2.0", GetId(message), Absent, Absent, "result", 0, tl, Proxy, 0)

\* A faulty is_tool_allowed that consults the whitelist only: C5 must tell it
\* from the real one.
is_tool_allowed_ignoring_blacklist(reg, server_name, tool_name) ==
    IF server_name \notin DOMAIN reg THEN FALSE
    ELSE LET config == reg[server_name] IN
         IF TruthyList(config.whitelist) /\ tool_name \notin config.whitelist.val
         THEN FALSE
         ELSE TRUE

\* MCPProxy.is_tool_allowed, on a registry
is_tool_allowed(reg, server_name, tool_name) ==
    IF server_name \notin DOMAIN reg THEN FALSE
    ELSE LET config == reg[server_name] IN
         IF TruthyList(config.blacklist) /\ tool_name \in config.blacklist.val
         THEN FALSE
         ELSE IF TruthyList(config.whitelist) /\ tool_name \notin config.whitelist.val
         THEN FALSE
         ELSE TRUE

\* A faulty filter loop that stops after the first tool: C15 must tell it
\* from the real one.
FilterTools_first_only(reg, server_name, tl) ==
    IF tl = <<>> THEN <<>>
    ELSE IF Head(tl).name # Absent /\ is_tool_allowed(reg, server_name, Head(tl).name)
    THEN <<Head(tl)>>
    ELSE <<>>

RECURSIVE FilterTools(_, _, _)
\* the loop of _handle_tools_list_for_server over result.tools
FilterTools(reg, server_name, tl) ==
    IF tl = <<>> THEN <<>>
    ELSE LET tool == Head(tl)
             rest == FilterTools(reg, server_name, Tail(tl))
         IN IF tool.name # Absent /\ is_tool_allowed(reg, server_name, tool.name)
            THEN <<tool>> \o rest
            ELSE rest


\* ------------------------------------------------------------ interceptors
\* An exception raised inside a hook.
Raised == Msg("Raised", "Raised", "Raised", "Raised", "Raised", 0, <<>>, "hook", 0)

\* What a user-supplied before-hook may do with the request it is handed:
\* return it, return None, raise, or return a rewritten copy (another tool
\* name, another id).
BeforeHookResults(request) ==
    {request, NoneMsg, Raised}
    \cup {[request EXCEPT !.name = t] : t \in Tools \ {request.name}}
    \cup {[request EXCEPT !.id = i] : i \in Ids \ {request.id}}

\* What a user-supplied after-hook may do with the response it is handed:
\* return it, return None, raise, or return a rewritten object (another id,
\* the empty object, an object that is no JSON-RPC response).
AfterHookResults(response) ==
    {response, NoneMsg, Raised, EmptyDict}
    \cup {[response EXCEPT !.id = i, !.src = "hook"] : i \in Ids \ {response.id}}
    \cup {[response EXCEPT !.jsonrpc = Absent, !.src = "hook"]}

HookOutcome(o) == IF o = NoneMsg THEN "block" ELSE IF o = Raised THEN "raise" ELSE "ok"

\* A pipeline run: the current object, the hooks invoked so far with their
\* outcomes, and whether the pipeline has returned None.
Run(res, trace, stop) == [res |-> res, trace |-> trace, stop |-> stop]

\* One "if key in hooks: try: ... except: return None" block, entered by the
\* run r with the hook's possible results outs.
HookStep(r, stage, key, outs) ==
    { Run(IF HookOutcome(o) = "ok" THEN o ELSE NoneMsg,
          Append(r.trace, <<stage, key, HookOutcome(o)>>),
          HookOutcome(o) # "ok") : o \in outs }

\* A faulty before pipeline that hands the request to the wildcard hook even
\* when the specific hook has blocked it: C6 must tell it from the real one.
_process_server_interceptors_before_no_return(reg, request, server_name, tool_name) ==
    LET start == Run(request, <<>>, FALSE) IN
    IF server_name \notin DOMAIN reg THEN {start}
    ELSE LET hooks == reg[server_name].intercept_before
             specific == IF tool_name \in hooks
                         THEN HookStep(start, "before", tool_name,
                                       BeforeHookResults(start.res))
                         ELSE {start}
         IN IF hooks = {} THEN {start}
            ELSE UNION { IF "*" \notin hooks THEN {r}
                         ELSE HookStep(r, "before", "*",
                                       BeforeHookResults(IF r.stop THEN request ELSE r.res))
                       : r \in specific }

\* MCPProxy._process_server_interceptors_before: the set of possible runs,
\* each with its result (NoneMsg = blocked) and the hooks it invoked.
_process_server_interceptors_before(reg, request, server_name, tool_name) ==
    LET start == Run(request, <<>>, FALSE) IN
    IF server_name \notin DOMAIN reg THEN {start}
    ELSE LET hooks == reg[server_name].intercept_before
             specific == IF tool_name \in hooks
                         THEN HookStep(start, "before", tool_name,
                                       BeforeHookResults(start.res))
                         ELSE {start}
         IN IF hooks = {} THEN {start}
            ELSE UNION { IF r.stop \/ "*" \notin hooks THEN {r}
                         ELSE HookStep(r, "before", "*", BeforeHookResults(r.res))
                       : r \in specific }

\* A faulty after pipeline that runs the wildcard hook first and the
\* tool-specific hook second: C14 must tell it from the real one.
_process_server_interceptors_after_wildcard_first(reg, request, response, server_name, tool_name) ==
    LET start == Run(response, <<>>, FALSE) IN
    IF server_name \notin DOMAIN reg THEN {start}
    ELSE LET hooks == reg[server_name].intercept_after
             wildcard == IF "*" \in hooks
                         THEN HookStep(start, "after", "*", AfterHookResults(start.res))
                         ELSE {start}
         IN IF hooks = {} THEN {start}
            ELSE UNION { IF r.stop \/ tool_name \notin hooks THEN {r}
                         ELSE HookStep(r, "after", tool_name, AfterHookResults(r.res))
                       : r \in wildcard }

\* MCPProxy._process_server_interceptors_after
_process_server_interceptors_after(reg, request, response, server_name, tool_name) ==
    LET start == Run(response, <<>>, FALSE) IN
    IF server_name \notin DOMAIN reg THEN {start}
    ELSE LET hooks == reg[server_name].intercept_after
             specific == IF tool_name \in hooks
                         THEN HookStep(start, "after", tool_name,
                                       AfterHookResults(start.res))
                         ELSE {start}
         IN IF hooks = {} THEN {start}
            ELSE UNION { IF r.stop \/ "*" \notin hooks THEN {r}
                         ELSE HookStep(r, "after", "*", AfterHookResults(r.res))
                       : r \in specific }

\* --------------------------------------------------------- embedded backend
\* PythonMCPServer._create_error_response
Py_create_error_response(request_id, code, server_name, c) ==
    IF request_id = Null THEN NoneMsg
    ELSE Msg("2.0", request_id, Absent, Absent, "error", code, <<>>, server_name, c)

\* PythonMCPServer.handle_request for the handler registered as server_name;
\* py_tools is what BaseMCP.get_tools returns.  BaseMCP defines neither
\* get_server_info nor call_tool (both sit after the return statement of
\* expose_tool), so initialize and tools/call end in the except branches.
handle_request(request, server_name, py_tools, c) ==
    LET request_id == GetId(request) IN
    CASE request.method = "initialize" ->
            Py_create_error_response(request_id, -32603, server_name, c)
      [] request.method = "tools/list" ->
            Msg("2.0", request_id, Absent, Absent, "result", 0, py_tools, server_name, c)
      [] request.method = "tools/call" ->
            IF request.name = Absent
            THEN Py_create_error_response(request_id, -32602, server_name, c)
            ELSE Py_create_error_response(request_id, -32000, server_name, c)
      [] OTHER -> Py_create_error_response(request_id, -32601, server_name, c)

\* ----------------------------------------------------------- forwarding
\* _forward_to_server, lines 1106-1126 and 1059-1075: what is made of the
\* object obtained from the backend for `message` (NoneMsg: nothing obtained).
\* none_code: the external path answers a falsy object with -32003; the
\* embedded path (none_code = 0) has no such branch.
CheckResponse(message, response, none_code) ==
    IF ~Truthy(response) /\ none_code # 0
    THEN _create_error_response(message, none_code)
    ELSE IF ~_is_valid_jsonrpc_response(response)
    THEN _create_error_response(message, -32603)
    ELSE IF GetId(message) # Null /\ GetId(response) # GetId(message)
    THEN _create_error_response(message, -32603)
    ELSE response

\* ------------------------------------------------------------------ inputs
Filter(w, b) == [whitelist |-> w, blacklist |-> b]

\* MCPServerConfig: "A" is launched from a command, "B" wraps a BaseMCP
\* instance whose get_tools returns py_tools.
MCPServerConfig(n, f, before, after) ==
    [name |-> n, whitelist |-> f.whitelist, blacklist |-> f.blacklist,
     auto_start |-> TRUE,
     is_python_mcp |-> (n = "B"),
     py_tools |-> IF n = "B" THEN <<Tool("t1", n), Tool("t2", n)>> ELSE <<>>,
     intercept_before |-> before, intercept_after |-> after]

\* The configurations handed to add_server.
Configs ==
    { MCPServerConfig("A", Filter(None, Some({"t1"})), {"t2", "*"}, {"t2", "*"}),
      MCPServerConfig("A", Filter(Some({}), None), {}, {}),
      MCPServerConfig("B", Filter(Some({"t1"}), None), {"*"}, {"t1"}),
      MCPServerConfig("B", Filter(None, None), {}, {}) }

\* In the place of a tool name: "params" is present and is not an object
\* (null, a list, a string).
NotObject == "notobject"

\* _log_received_message raises AttributeError: for tools/call it calls
\* params.get("name") on whatever "params" holds.
_log_received_message_raises(raw_message) ==
    raw_message.method = "tools/call" /\ raw_message.name = NotObject

\* The lines a client sends that parse as a JSON object.
ClientMessages ==
    {Request(i, m, Absent) : i \in {"x", Absent}, m \in {"initialize", "tools/list"}}
    \cup {Request(i, "ping", Absent) : i \in Ids}
    \cup {Request(Absent, "notifications/initialized", Absent)}
    \cup {Request(i, "tools/call", n) : i \in {"x", Absent}, n \in Tools \cup {Absent}}
    \cup {Request("y", "tools/call", "t1"), Request("x", "tools/call", NotObject)}
    \cup {Request("x", "tools/call", "*")}
    \cup {[Request(i, "tools/list", Absent) EXCEPT !.jsonrpc = "1.0"] : i \in {"x", Absent}}

\* The lines that end the message loop: end of stream, a line that is not a
\* JSON object, a line longer than max_message_bytes.
BadLines == {"eof", "invalid_json", "oversized"}

\* The tool lists an external backend may return for tools/list.
ToolLists(s) == { <<Tool("t1", s)>>, <<Tool("t1", s), Tool("t2", s)>> }

\* What a child process may print after reading the request m: nothing, the
\* answer, an answer carrying another id, or a line that is no response.
\* The field ans remembers which forward the line answers.
ChildLines(s, m) ==
    LET a == m.ans
        ok == IF m.method = "tools/list"
              THEN {Msg("2.0", GetId(m), Absent, Absent, "result", 0, tl, s, a) :
                        tl \in ToolLists(s)}
              ELSE {Msg("2.0", GetId(m), Absent, Absent, "result", 0, <<>>, s, a)}
    IN IF m.id = Absent
       THEN {NoneMsg, Msg("2.0", "x", Absent, Absent, "result", 0, <<>>, s, a)}
       ELSE {NoneMsg} \cup ok
            \cup {Msg("2.0", GetId(m), Absent, Absent, "error", -32000, <<>>, s, a)}
            \cup {Msg("2.0", CHOOSE i \in Ids : i # m.id, Absent, Absent, "result", 0, <<>>, s, a)}
            \cup {Msg(Absent, GetId(m), Absent, Absent, "result", 0, <<>>, s, a)}

\* ------------------------------------------------------------------- state
VARIABLES
    servers,              \* MCPProxy.servers: name -> MCPServerConfig
    running,              \* MCPProxy.running
    server_listeners,     \* names that have a listening endpoint
    active_processes,     \* MCPProxy.active_processes: name -> child process
    python_servers,       \* MCPProxy.python_servers: name -> tools of the wrapped instance
    procs,                \* the child processes spawned so far
    max_connections,      \* MCPProxy.max_connections
    connection_semaphore, \* free slots of MCPProxy.connection_semaphore
    conn,                 \* the handler thread of each client connection
    ctl,                  \* the controller: MCPProxy.temp_dir and its place in auto_start_servers
    ev                    \* the handler step that has just finished

vars == <<servers, running, server_listeners, active_processes, python_servers,
          procs, max_connections, connection_semaphore, conn, ctl, ev>>

Pids == 1..MaxProcs

\* killed: stop_server sent kill() to the child.
NoProcess == [server |-> "none", alive |-> FALSE, stdin |-> <<>>, stdout |-> <<>>,
              killed |-> FALSE]

\* late: when the request was written to the child, the child's stdout held
\* a line printed for an earlier request.
IdleConn == [pc |-> "idle", server |-> "none", msg |-> NoneMsg, req |-> NoneMsg,
             trace |-> <<>>, pid |-> 0, bl |-> {}, late |-> FALSE]

NoEvent == [conn |-> 0, server |-> "none", line |-> "none", msg |-> NoneMsg,
            req |-> NoneMsg, fwd |-> NoneMsg, raw |-> NoneMsg, reply |-> NoneMsg,
            trace |-> <<>>, bl |-> {}, late |-> FALSE]

\* The controller outside auto_start_servers, without a scratch directory.
\* temp_dir: 0 is None, 1 is the directory made by mkdtemp.
\* again: the running call of auto_start_servers found the proxy running and
\* every backend marked for auto-start running.
\* What the running call of startup_with_config has done to its destination
\* directory.  config_file: the configuration file it has put there ("none",
\* or its mode); via_symlink: through a destination that is a symlink;
\* tmp_file: a temp file is left there.
IdleCtl == [pc |-> "idle", todo |-> {}, temp_dir |-> 0, again |-> FALSE,
            config_file |-> "none", via_symlink |-> FALSE, tmp_file |-> FALSE]

\* MCPProxy.__init__, followed by the assignment of max_connections and of
\* the semaphore built from it.
Init ==
    /\ servers = <<>>
    /\ running = FALSE
    /\ server_listeners = {}
    /\ active_processes = <<>>
    /\ python_servers = <<>>
    /\ procs = [p \in Pids |-> NoProcess]
    /\ max_connections \in 1..MaxCap
    /\ connection_semaphore = max_connections
    /\ conn = [c \in Conns |-> IdleConn]
    /\ ctl = IdleCtl
    /\ ev = NoEvent

\* No handler step is waiting to be followed by its loop test, and the
\* controller is not inside auto_start_servers.
Quiet == ev = NoEvent /\ ctl.pc = "idle"

\* Function update helpers for dicts.
With(f, k, v) == [x \in DOMAIN f \cup {k} |-> IF x = k THEN v ELSE f[x]]
Without(f, k) == [x \in DOMAIN f \ {k} |-> f[x]]

\* ---------------------------------------------------------------- lifecycle
\* MCPProxy.add_server
add_server(config) ==
    /\ Quiet
    /\ IF config.name \in DOMAIN servers THEN servers[config.name] # config ELSE TRUE
    /\ servers' = With(servers, config.name, config)
    /\ UNCHANGED <<ctl, running, server_listeners, active_processes, python_servers,
                   procs, max_connections, connection_semaphore, conn, ev>>

\* start_proxy_server without its "if self.running: return True": every call
\* binds the endpoints of the registry again.
start_proxy_server_result_rebind(bind_ok) ==
    IF bind_ok \/ DOMAIN servers = {}
    THEN [running |-> TRUE, listeners |-> DOMAIN servers, temp_dir |-> 1]
    ELSE [running |-> FALSE, listeners |-> {}, temp_dir |-> 1]

\* What a call of start_proxy_server leaves behind.  bind_ok: every
\* endpoint could be created; otherwise the except branch (lines 481-486)
\* has called stop_proxy_server.
start_proxy_server_result(bind_ok) ==
    IF running
    THEN [running |-> running, listeners |-> server_listeners, temp_dir |-> ctl.temp_dir]
    ELSE IF bind_ok \/ DOMAIN servers = {}
    THEN [running |-> TRUE, listeners |-> DOMAIN servers, temp_dir |-> 1]
    ELSE [running |-> FALSE, listeners |-> {}, temp_dir |-> 1]

\* MCPProxy.start_proxy_server
start_proxy_server(bind_ok) ==
    /\ Quiet
    /\ ~running
    /\ LET r == start_proxy_server_result(bind_ok) IN
         /\ running' = r.running
         /\ server_listeners' = r.listeners
         /\ ctl' = [ctl EXCEPT !.temp_dir = r.temp_dir]
    /\ UNCHANGED <<servers, active_processes, python_servers, procs,
                   max_connections, connection_semaphore, conn, ev>>

\* MCPProxy.stop_proxy_server
stop_proxy_server ==
    /\ Quiet
    /\ running
    /\ running' = FALSE
    /\ server_listeners' = {}
    /\ UNCHANGED <<ctl, servers, active_processes, python_servers, procs,
                   max_connections, connection_semaphore, conn, ev>>

\* start_server has nothing to do: the handler exists, or the child lives.
AlreadyRunning(server_name) ==
    IF servers[server_name].is_python_mcp
    THEN server_name \in DOMAIN python_servers
    ELSE IF server_name \in DOMAIN active_processes
    THEN procs[active_processes[server_name]].alive
    ELSE FALSE

\* start_server without its tests for a backend that is running: the
\* handler is constructed and the child is spawned on every call.
start_server_effect_always(server_name, child_lives) ==
       LET config == servers[server_name] IN
       IF config.is_python_mcp
       THEN /\ child_lives
            /\ python_servers' = With(python_servers, server_name, config.py_tools)
            /\ UNCHANGED <<active_processes, procs>>
       ELSE /\ \E pid \in Pids :
                 /\ procs[pid] = NoProcess
                 /\ \A q \in Pids : q < pid => procs[q] # NoProcess
                 /\ procs' = [procs EXCEPT ![pid] =
                                [NoProcess EXCEPT !.server = server_name,
                                                  !.alive = child_lives]]
                 /\ active_processes' =
                        IF child_lives THEN With(active_processes, server_name, pid)
                        ELSE Without(active_processes, server_name)
            /\ UNCHANGED python_servers

\* What start_server does to a registered backend that is not running;
\* child_lives is process.poll() is None after the one-second wait (for an
\* embedded backend: the wrapper was constructed).
start_server_effect(server_name, child_lives) ==
       LET config == servers[server_name] IN
       IF config.is_python_mcp
       THEN /\ server_name \notin DOMAIN python_servers
            /\ child_lives
            /\ python_servers' = With(python_servers, server_name, config.py_tools)
            /\ UNCHANGED <<active_processes, procs>>
       ELSE /\ IF server_name \in DOMAIN active_processes
               THEN ~procs[active_processes[server_name]].alive ELSE TRUE
            /\ \E pid \in Pids :
                 /\ procs[pid] = NoProcess
                 /\ \A q \in Pids : q < pid => procs[q] # NoProcess
                 /\ procs' = [procs EXCEPT ![pid] =
                                [NoProcess EXCEPT !.server = server_name,
                                                  !.alive = child_lives]]
                 /\ active_processes' =
                        IF child_lives THEN With(active_processes, server_name, pid)
                        ELSE Without(active_processes, server_name)
            /\ UNCHANGED python_servers

\* MCPProxy.start_server
start_server(server_name, child_lives) ==
    /\ Quiet
    /\ server_name \in DOMAIN servers
    /\ start_server_effect(server_name, child_lives)
    /\ UNCHANGED <<ctl, servers, running, server_listeners, max_connections,
                   connection_semaphore, conn, ev>>

\* What stop_server does when it has something to stop.  heeds_term: the
\* child exits within the second that follows terminate(); otherwise
\* "process.poll() is None" and kill() is sent.
stop_server_effect(server_name, heeds_term) ==
       IF server_name \in DOMAIN python_servers
       THEN /\ python_servers' = Without(python_servers, server_name)
            /\ UNCHANGED <<active_processes, procs>>
       ELSE /\ server_name \in DOMAIN active_processes
            /\ LET child == procs[active_processes[server_name]] IN
               procs' = [procs EXCEPT ![active_processes[server_name]] =
                            [@ EXCEPT !.alive = FALSE, !.stdin = <<>>, !.stdout = <<>>,
                                      !.killed = child.alive /\ ~heeds_term]]
            /\ active_processes' = Without(active_processes, server_name)
            /\ UNCHANGED python_servers

\* MCPProxy.stop_server
stop_server(server_name, heeds_term) ==
    /\ Quiet
    /\ stop_server_effect(server_name, heeds_term)
    /\ UNCHANGED <<ctl, servers, running, server_listeners, max_connections,
                   connection_semaphore, conn, ev>>

\* A child process reads one request from its stdin and prints at most one
\* line on its stdout.
ChildStep(pid) ==
    /\ Quiet
    /\ procs[pid].alive
    /\ procs[pid].stdin # <<>>
    /\ \E out \in ChildLines(procs[pid].server, Head(procs[pid].stdin)) :
         /\ out # NoneMsg => Len(procs[pid].stdout) < MaxPipe
         /\ procs' = [procs EXCEPT ![pid].stdin = Tail(@),
                                   ![pid].stdout = IF out = NoneMsg THEN @
                                                   ELSE Append(@, out)]
    /\ UNCHANGED <<ctl, servers, running, server_listeners, active_processes,
                   python_servers, max_connections, connection_semaphore, conn, ev>>

\* A child process exits on its own; what it had not read or flushed is lost.
ChildExit(pid) ==
    /\ ev = NoEvent
    /\ procs[pid].alive
    /\ procs' = [procs EXCEPT ![pid] =
                    [@ EXCEPT !.alive = FALSE, !.stdin = <<>>, !.stdout = <<>>]]
    /\ UNCHANGED <<ctl, servers, running, server_listeners, active_processes,
                   python_servers, max_connections, connection_semaphore, conn, ev>>

\* The backends auto_start_servers starts: "if config.auto_start".
AutoStartNames == {n \in DOMAIN servers : servers[n].auto_start}

\* Popen can create a process (the model's process table has a free entry).
CanSpawn == \E pid \in Pids : procs[pid] = NoProcess

\* MCPProxy.auto_start_servers up to the for loop: start_proxy_server is
\* called and its result is dropped.
auto_start_servers(bind_ok) ==
    /\ Quiet
    /\ LET r == start_proxy_server_result(bind_ok) IN
         /\ running' = r.running
         /\ server_listeners' = r.listeners
         /\ ctl' = [ctl EXCEPT
                      !.pc = "backends", !.todo = AutoStartNames,
                      !.temp_dir = r.temp_dir,
                      !.again = running /\ \A n \in AutoStartNames : AlreadyRunning(n)]
    /\ UNCHANGED <<servers, active_processes, python_servers, procs,
                   max_connections, connection_semaphore, conn, ev>>

\* A faulty loop that gives up at the first backend that does not start.
auto_start_step_abort(server_name, child_lives) ==
    /\ ev = NoEvent
    /\ ctl.pc = "backends"
    /\ server_name \in ctl.todo
    /\ IF AlreadyRunning(server_name)
       THEN /\ UNCHANGED <<active_processes, python_servers, procs>>
            /\ ctl' = [ctl EXCEPT !.todo = @ \ {server_name}]
       ELSE IF child_lives /\ (servers[server_name].is_python_mcp \/ CanSpawn)
       THEN /\ start_server_effect(server_name, child_lives)
            /\ ctl' = [ctl EXCEPT !.todo = @ \ {server_name}]
       ELSE /\ UNCHANGED <<active_processes, python_servers, procs>>
            /\ ctl' = [ctl EXCEPT !.todo = {}]
    /\ UNCHANGED <<servers, running, server_listeners, max_connections,
                   connection_semaphore, conn, ev>>

\* One iteration of the for loop of auto_start_servers: start_server on a
\* backend marked for auto-start.  start_server returns without effect when
\* the backend is running or when Popen or the wrapper's constructor raises.
auto_start_step(server_name, child_lives) ==
    /\ ev = NoEvent
    /\ ctl.pc = "backends"
    /\ server_name \in ctl.todo
    /\ IF AlreadyRunning(server_name)
       THEN UNCHANGED <<active_processes, python_servers, procs>>
       ELSE IF servers[server_name].is_python_mcp
       THEN IF child_lives
            THEN start_server_effect(server_name, child_lives)
            ELSE UNCHANGED <<active_processes, python_servers, procs>>
       ELSE IF CanSpawn
            THEN start_server_effect(server_name, child_lives)
            ELSE UNCHANGED <<active_processes, python_servers, procs>>
    /\ ctl' = [ctl EXCEPT !.todo = @ \ {server_name}]
    /\ UNCHANGED <<servers, running, server_listeners, max_connections,
                   connection_semaphore, conn, ev>>

\* auto_start_servers returns after the last iteration.
auto_start_return ==
    /\ ev = NoEvent
    /\ ctl.pc = "backends"
    /\ ctl.todo = {}
    /\ ctl' = [ctl EXCEPT !.pc = "idle", !.again = FALSE]
    /\ UNCHANGED <<servers, running, server_listeners, active_processes,
                   python_servers, procs, max_connections, connection_semaphore,
                   conn, ev>>

\* The end of startup_with_config(client_type, config_path) with a
\* config_path: auto_start_servers has returned and the configuration is
\* written.  is_symlink: config_path.is_symlink(); the RuntimeError raised
\* for it is caught by the "except Exception: pass" around the test.
\* dump_ok: json.dump, flush and fchmod succeed, so that os.replace renames
\* the temp file; otherwise the finally block unlinks it.
startup_with_config_write(is_symlink, dump_ok) ==
    /\ ev = NoEvent
    /\ ctl.pc = "backends"
    /\ ctl.todo = {}
    /\ LET renamed == dump_ok
           unlinked == ~renamed
       IN ctl' = [ctl EXCEPT
                    !.pc = "written", !.again = FALSE,
                    !.config_file = IF renamed THEN "0600" ELSE @,
                    !.via_symlink = IF renamed THEN is_symlink ELSE @,
                    !.tmp_file = ~renamed /\ ~unlinked]
    /\ UNCHANGED <<servers, running, server_listeners, active_processes,
                   python_servers, procs, max_connections, connection_semaphore,
                   conn, ev>>

\* startup_with_config returns (or raises, when the write failed).
startup_with_config_return ==
    /\ ev = NoEvent
    /\ ctl.pc = "written"
    /\ ctl' = [ctl EXCEPT !.pc = "idle", !.config_file = "none",
                          !.via_symlink = FALSE, !.tmp_file = FALSE]
    /\ UNCHANGED <<servers, running, server_listeners, active_processes,
                   python_servers, procs, max_connections, connection_semaphore,
                   conn, ev>>

\* MCPProxy.cleanup up to the first loop of stop_all_servers:
\* stop_proxy_server closes the listeners and unlinks the socket files, then
\* "for server_name in list(self.active_processes.keys())".
cleanup ==
    /\ Quiet
    /\ running' = FALSE
    /\ server_listeners' = {}
    /\ ctl' = [ctl EXCEPT !.pc = "stop_external", !.todo = DOMAIN active_processes]
    /\ UNCHANGED <<servers, active_processes, python_servers, procs,
                   max_connections, connection_semaphore, conn, ev>>

\* One iteration of a loop of stop_all_servers: stop_server, which returns
\* without effect on a name that has neither a handler nor a child.
stop_all_step(server_name, heeds_term) ==
    /\ ev = NoEvent
    /\ ctl.pc \in {"stop_external", "stop_python"}
    /\ server_name \in ctl.todo
    /\ IF server_name \in DOMAIN python_servers \/ server_name \in DOMAIN active_processes
       THEN stop_server_effect(server_name, heeds_term)
       ELSE UNCHANGED <<active_processes, python_servers, procs>>
    /\ ctl' = [ctl EXCEPT !.todo = @ \ {server_name}]
    /\ UNCHANGED <<servers, running, server_listeners, max_connections,
                   connection_semaphore, conn, ev>>

\* stop_all_servers goes on to its second loop:
\* "for server_name in list(self.python_servers.keys())".
stop_all_python ==
    /\ ev = NoEvent
    /\ ctl.pc = "stop_external"
    /\ ctl.todo = {}
    /\ ctl' = [ctl EXCEPT !.pc = "stop_python", !.todo = DOMAIN python_servers]
    /\ UNCHANGED <<servers, running, server_listeners, active_processes,
                   python_servers, procs, max_connections, connection_semaphore,
                   conn, ev>>

\* The end of cleanup: the scratch directory is removed and temp_dir is None.
cleanup_return ==
    /\ ev = NoEvent
    /\ ctl.pc = "stop_python"
    /\ ctl.todo = {}
    /\ ctl' = [ctl EXCEPT !.pc = "idle", !.temp_dir = 0]
    /\ UNCHANGED <<servers, running, server_listeners, active_processes,
                   python_servers, procs, max_connections, connection_semaphore,
                   conn, ev>>

\* ------------------------------------------------------------------ router
\* "result" in response
HasResult(m) == Truthy(m) /\ m.body = "result"

\* A faulty finally block that does not give the slot back.
Release_forgotten(v) == v

\* threading.BoundedSemaphore.release inside "try: ... except Exception: pass":
\* at the bound it raises ValueError and the counter keeps its value.
Release(v) == IF v < max_connections THEN v + 1 ELSE v

\* A faulty tools/call handler that forwards the original request when the
\* before pipeline has blocked it: C13 must tell it from the real one.
PreForward_ignoring_block(message, server_name) ==
    LET Done(reply, trace) ==
            [done |-> TRUE, reply |-> reply, req |-> NoneMsg, trace |-> trace]
        Go(req, trace) ==
            [done |-> FALSE, reply |-> NoneMsg, req |-> req, trace |-> trace]
    IN IF message.method # "tools/call" THEN {Go(message, <<>>)}
       ELSE IF message.name = Absent
       THEN {Done(_create_error_response(message, -32602), <<>>)}
       ELSE IF ~is_tool_allowed(servers, server_name, message.name)
       THEN {Done(_create_error_response(message, -32001), <<>>)}
       ELSE { Go(IF r.stop THEN message ELSE r.res, r.trace)
            : r \in _process_server_interceptors_before(
                        servers, message, server_name, message.name) }

\* The part of a handler that precedes the forward.  done: the reply is
\* decided without a forward; otherwise req is the object handed to
\* _forward_to_server.  _route_tool_call_to_server, lines 997-1018; the other
\* handlers forward the message as it is.
PreForward(message, server_name) ==
    LET Done(reply, trace) ==
            [done |-> TRUE, reply |-> reply, req |-> NoneMsg, trace |-> trace]
        Go(req, trace) ==
            [done |-> FALSE, reply |-> NoneMsg, req |-> req, trace |-> trace]
    IN IF message.method # "tools/call" THEN {Go(message, <<>>)}
       ELSE IF message.name = Absent
       THEN {Done(_create_error_response(message, -32602), <<>>)}
       ELSE IF ~is_tool_allowed(servers, server_name, message.name)
       THEN {Done(_create_error_response(message, -32001), <<>>)}
       ELSE { IF r.stop
              THEN Done(_create_error_response(message, -32001), r.trace)
              ELSE Go(r.res, r.trace)
            : r \in _process_server_interceptors_before(
                        servers, message, server_name, message.name) }

\* A faulty forward that hands the request to whichever embedded backend is
\* running, as the legacy single-socket router does with its first backend:
\* C7 must tell it from the real one.
ForwardStart_any_backend(server_name, req, c) ==
    LET target == IF DOMAIN python_servers # {}
                  THEN CHOOSE s \in DOMAIN python_servers : TRUE
                  ELSE server_name
        Sync(resp, delivered) ==
            [io |-> FALSE, delivered |-> delivered, resp |-> resp,
             target |-> target, pid |-> 0]
    IN IF target \in DOMAIN python_servers
       THEN IF ~_is_valid_jsonrpc_message(req)
            THEN Sync(_create_error_response(req, -32600), FALSE)
            ELSE Sync(CheckResponse(req,
                        handle_request(req, target, python_servers[target], c), 0), TRUE)
       ELSE IF target \notin DOMAIN active_processes
       THEN Sync(_create_error_response(req, -32001), FALSE)
       ELSE IF ~_is_valid_jsonrpc_message(req)
       THEN Sync(_create_error_response(req, -32600), FALSE)
       ELSE IF ~procs[active_processes[target]].alive
       THEN Sync(_create_error_response(req, -32003), FALSE)
       ELSE [io |-> TRUE, delivered |-> TRUE, resp |-> NoneMsg,
             target |-> target, pid |-> active_processes[target]]

\* _forward_to_server up to the point where it either returns or has written
\* the request to the child's stdin (io) and waits for the answer.
\* delivered: a backend was handed the request.
ForwardStart(server_name, req, c) ==
    LET Sync(resp, delivered) ==
            [io |-> FALSE, delivered |-> delivered, resp |-> resp,
             target |-> server_name, pid |-> 0]
    IN IF server_name \in DOMAIN python_servers
       THEN IF ~_is_valid_jsonrpc_message(req)
            THEN Sync(_create_error_response(req, -32600), FALSE)
            ELSE Sync(CheckResponse(req,
                        handle_request(req, server_name,
                                       python_servers[server_name], c), 0), TRUE)
       ELSE IF server_name \notin DOMAIN active_processes
       THEN Sync(_create_error_response(req, -32001), FALSE)
       ELSE IF ~_is_valid_jsonrpc_message(req)
       THEN Sync(_create_error_response(req, -32600), FALSE)
       ELSE IF ~procs[active_processes[server_name]].alive
       THEN Sync(_create_error_response(req, -32003), FALSE)
       ELSE [io |-> TRUE, delivered |-> TRUE, resp |-> NoneMsg,
             target |-> server_name, pid |-> active_processes[server_name]]

\* The part of a handler that follows the forward: the possible replies, each
\* with the hooks invoked.  resp is what _forward_to_server returned.
PostForward(message, req, resp, trace, server_name) ==
    LET Out(reply, t) == [reply |-> reply, trace |-> t] IN
    CASE message.method = "tools/list" ->
            { Out(ResultReply(message,
                      IF HasResult(resp)
                      THEN FilterTools(servers, server_name, resp.tools)
                      ELSE <<>>), trace) }
      [] message.method = "initialize" ->
            { Out(IF HasResult(resp) THEN resp ELSE ResultReply(message, <<>>), trace) }
      [] message.method = "tools/call" ->
            IF resp = NoneMsg
            THEN { Out(_create_error_response(message, -32003), trace) }
            ELSE { Out(IF r.stop THEN _create_error_response(message, -32001)
                       ELSE r.res, trace \o r.trace)
                 : r \in _process_server_interceptors_after(
                            servers, req, resp, server_name, message.name) }
      [] OTHER -> { Out(resp, trace) }

\* The end of one pass through the loop body: "if response:" writes the
\* reply, and the handler is back at the loop test.
Complete(c, message, req, fwd, raw, reply, trace, bl) ==
    /\ conn' = [conn EXCEPT ![c] = [IdleConn EXCEPT !.pc = "loop",
                                                    !.server = conn[c].server]]
    /\ ev' = [conn |-> c, server |-> conn[c].server, line |-> "message",
              msg |-> message, req |-> req, fwd |-> fwd, raw |-> raw,
              reply |-> reply, trace |-> trace, bl |-> bl, late |-> conn[c].late]

\* _server_socket_loop: accept and start the handler thread.
Accept(c, server_name) ==
    /\ Quiet
    /\ running
    /\ server_name \in server_listeners
    /\ conn[c].pc = "idle"
    /\ conn' = [conn EXCEPT ![c] = [IdleConn EXCEPT !.pc = "start",
                                                    !.server = server_name]]
    /\ UNCHANGED <<ctl, servers, running, server_listeners, active_processes,
                   python_servers, procs, max_connections, connection_semaphore, ev>>

\* _handle_client_for_server, lines 656-669: the non-blocking acquire.
HandleClientStart(c) ==
    /\ Quiet
    /\ conn[c].pc = "start"
    /\ IF connection_semaphore > 0
       THEN /\ connection_semaphore' = connection_semaphore - 1
            /\ conn' = [conn EXCEPT ![c].pc = "loop"]
       ELSE /\ conn' = [conn EXCEPT ![c].pc = "refused"]
            /\ UNCHANGED connection_semaphore
    /\ UNCHANGED <<ctl, servers, running, server_listeners, active_processes,
                   python_servers, procs, max_connections, ev>>

\* "while self.running:"
LoopTest(c) ==
    /\ Quiet \/ ev.conn = c
    /\ conn[c].pc = "loop"
    /\ conn' = [conn EXCEPT ![c].pc = IF running THEN "read" ELSE "break"]
    /\ ev' = NoEvent
    /\ UNCHANGED <<ctl, servers, running, server_listeners, active_processes,
                   python_servers, procs, max_connections, connection_semaphore>>

\* A faulty handler that skips a line it cannot take and goes on reading.
ReadBadLine_skip(c, line) ==
    /\ Quiet
    /\ conn[c].pc = "read"
    /\ conn' = [conn EXCEPT ![c].pc = "loop"]
    /\ ev' = [NoEvent EXCEPT !.conn = c, !.server = conn[c].server, !.line = line]
    /\ UNCHANGED <<ctl, servers, running, server_listeners, active_processes,
                   python_servers, procs, max_connections, connection_semaphore>>

\* A line that makes the handler leave the loop (lines 676-690, 725-737).
ReadBadLine(c, line) ==
    /\ Quiet
    /\ conn[c].pc = "read"
    /\ conn' = [conn EXCEPT ![c].pc = "break"]
    /\ ev' = [NoEvent EXCEPT !.conn = c, !.server = conn[c].server, !.line = line]
    /\ UNCHANGED <<ctl, servers, running, server_listeners, active_processes,
                   python_servers, procs, max_connections, connection_semaphore>>

\* The finally block of _handle_client_for_server, lines 744-753.  It also
\* runs after the "return" of a refused connection.
Close(c) ==
    /\ Quiet \/ ev.conn = c
    /\ conn[c].pc \in {"break", "refused"}
    /\ connection_semaphore' = Release(connection_semaphore)
    /\ conn' = [conn EXCEPT ![c] = IdleConn]
    /\ ev' = NoEvent
    /\ UNCHANGED <<ctl, servers, running, server_listeners, active_processes,
                   python_servers, procs, max_connections>>

\* One pass through the loop body for a line that parses: dispatch on the
\* method, up to the reply or up to the write to the child's stdin.
HandleMessage(c, message) ==
    /\ Quiet
    /\ conn[c].pc = "read"
    /\ IF _log_received_message_raises(message)
       THEN \* "except Exception: ... break", lines 730-737
            /\ conn' = [conn EXCEPT ![c].pc = "break"]
            /\ ev' = [NoEvent EXCEPT !.conn = c, !.server = conn[c].server,
                                     !.line = "raised", !.msg = message]
            /\ UNCHANGED procs
       ELSE
       LET server_name == conn[c].server
           bl == IF server_name \in DOMAIN servers
                 THEN servers[server_name].blacklist.val ELSE {}
       IN \E p \in PreForward(message, server_name) :
            IF p.done
            THEN /\ Complete(c, message, NoneMsg, NoneMsg, NoneMsg, p.reply, p.trace, bl)
                 /\ UNCHANGED procs
            ELSE LET f == ForwardStart(server_name, p.req, c)
                     trace == IF f.delivered
                              THEN Append(p.trace, <<"forward", f.target, "ok">>)
                              ELSE p.trace
                 IN IF f.io
                    THEN /\ Len(procs[f.pid].stdin) < MaxPipe
                         /\ procs' = [procs EXCEPT ![f.pid].stdin =
                                        Append(@, [p.req EXCEPT !.ans = c,
                                                                !.src = server_name])]
                         /\ conn' = [conn EXCEPT ![c] =
                                        [pc |-> "await", server |-> server_name,
                                         msg |-> message, req |-> p.req,
                                         trace |-> trace, pid |-> f.pid, bl |-> bl,
                                         late |-> procs[f.pid].stdout # <<>>]]
                         /\ UNCHANGED ev
                    ELSE /\ \E q \in PostForward(message, p.req, f.resp, trace, server_name) :
                              Complete(c, message, p.req, f.resp, NoneMsg,
                                       q.reply, q.trace, bl)
                         /\ UNCHANGED procs
    /\ UNCHANGED <<ctl, servers, running, server_listeners, active_processes,
                   python_servers, max_connections, connection_semaphore>>

\* A faulty handler that goes back to reading the client while its forward is
\* still waiting for the child: C9 must tell it from the real one.
ReadResponse_abandon(c) ==
    /\ Quiet
    /\ conn[c].pc = "await"
    /\ conn' = [conn EXCEPT ![c] = [IdleConn EXCEPT !.pc = "read",
                                                    !.server = conn[c].server]]
    /\ UNCHANGED <<ctl, servers, running, server_listeners, active_processes,
                   python_servers, procs, max_connections, connection_semaphore, ev>>

\* _read_server_response_with_timeout and the rest of the handler: the line
\* at the head of the child's stdout, or nothing (timeout, end of stream).
ReadResponse(c) ==
    /\ Quiet
    /\ conn[c].pc = "await"
    /\ LET pid == conn[c].pid
           raw == IF procs[pid].stdout # <<>> THEN Head(procs[pid].stdout) ELSE NoneMsg
           resp == CheckResponse(conn[c].req, raw, -32003)
       IN /\ procs' = [procs EXCEPT ![pid].stdout = IF @ # <<>> THEN Tail(@) ELSE @]
          /\ \E q \in PostForward(conn[c].msg, conn[c].req, resp, conn[c].trace,
                                  conn[c].server) :
               Complete(c, conn[c].msg, conn[c].req, resp, raw, q.reply, q.trace,
                        conn[c].bl)
    /\ UNCHANGED <<ctl, servers, running, server_listeners, active_processes,
                   python_servers, max_connections, connection_semaphore>>

\* ------------------------------------------------------- specifications
\* One client connection at a time, every configuration and every message.
SeqConns == {1}

Next ==
    \/ \E config \in Configs : add_server(config)
    \/ \E bind_ok \in BOOLEAN : start_proxy_server(bind_ok)
    \/ stop_proxy_server
    \/ \E s \in Names, child_lives \in BOOLEAN : start_server(s, child_lives)
    \/ \E s \in Names : stop_server(s, TRUE)
    \/ \E pid \in Pids : ChildStep(pid)
    \/ \E pid \in Pids : ChildExit(pid)
    \/ \E c \in SeqConns, s \in Names : Accept(c, s)
    \/ \E c \in SeqConns : HandleClientStart(c)
    \/ \E c \in SeqConns : LoopTest(c)
    \/ \E c \in SeqConns, line \in BadLines : ReadBadLine(c, line)
    \/ \E c \in SeqConns, message \in ClientMessages : HandleMessage(c, message)
    \/ \E c \in SeqConns : ReadResponse(c)
    \/ \E c \in SeqConns : Close(c)

Spec == Init /\ [][Next]_vars

\* Concurrent client connections, a reduced vocabulary.
ConcConfigs ==
    { MCPServerConfig("A", Filter(Some({}), None), {}, {}),
      MCPServerConfig("B", Filter(Some({"t1"}), None), {"*"}, {"t1"}) }

ConcMessages ==
    { Request("x", "ping", Absent), Request("y", "ping", Absent),
      Request(Absent, "notifications/initialized", Absent),
      Request("x", "tools/list", Absent),
      Request("x", "tools/call", "t2") }

NextConc ==
    \/ \E config \in ConcConfigs : add_server(config)
    \/ \E bind_ok \in BOOLEAN : start_proxy_server(bind_ok)
    \/ stop_proxy_server
    \/ \E s \in Names, child_lives \in BOOLEAN : start_server(s, child_lives)
    \/ \E s \in Names : stop_server(s, TRUE)
    \/ \E pid \in Pids : ChildStep(pid)
    \/ \E pid \in Pids : ChildExit(pid)
    \/ \E c \in Conns, s \in Names : Accept(c, s)
    \/ \E c \in Conns : HandleClientStart(c)
    \/ \E c \in Conns : LoopTest(c)
    \/ \E c \in Conns, line \in BadLines : ReadBadLine(c, line)
    \/ \E c \in Conns, message \in ConcMessages : HandleMessage(c, message)
    \/ \E c \in Conns : ReadResponse(c)
    \/ \E c \in Conns : Close(c)

SpecConc == Init /\ [][NextConc]_vars

\* The controller alone: registration, the endpoints, the backends and
\* auto_start_servers, with backends that are and are not marked for
\* auto-start.  A name can be registered again with python_mcp set or unset.
LifeConfigs ==
    { [MCPServerConfig(n, Filter(None, None), {}, {})
          EXCEPT !.auto_start = a, !.is_python_mcp = k] :
        n \in Names, a \in BOOLEAN, k \in BOOLEAN }

NextLife ==
    \/ \E config \in LifeConfigs : add_server(config)
    \/ \E bind_ok \in BOOLEAN : start_proxy_server(bind_ok)
    \/ stop_proxy_server
    \/ \E s \in Names, child_lives \in BOOLEAN : start_server(s, child_lives)
    \/ \E s \in Names, heeds_term \in BOOLEAN : stop_server(s, heeds_term)
    \/ \E pid \in Pids : ChildExit(pid)
    \/ \E bind_ok \in BOOLEAN : auto_start_servers(bind_ok)
    \/ \E s \in Names, child_lives \in BOOLEAN : auto_start_step(s, child_lives)
    \/ auto_start_return
    \/ \E is_symlink \in BOOLEAN, dump_ok \in BOOLEAN :
          startup_with_config_write(is_symlink, dump_ok)
    \/ startup_with_config_return
    \/ cleanup
    \/ \E s \in Names, heeds_term \in BOOLEAN : stop_all_step(s, heeds_term)
    \/ stop_all_python
    \/ cleanup_return

SpecLife == Init /\ [][NextLife]_vars

\* Backend names as they are written, character by character, so that a name
\* can be matched and joined into a path.
RegNames == { <<"A">>, <<"b", "-", "1">>, <<"a", "/", "b">>, <<>> }

RECURSIVE PathParts(_, _)
\* The components of a relative path: the characters of s cut at each "/",
\* cur being the component under construction.
PathParts(s, cur) ==
    IF s = <<>> THEN <<cur>>
    ELSE IF Head(s) = "/" THEN <<cur>> \o PathParts(Tail(s), <<>>)
    ELSE PathParts(Tail(s), Append(cur, Head(s)))

\* socket_path = self.temp_dir / f"{server_name}.sock": the components below
\* the scratch directory.
socket_path(server_name) == PathParts(server_name \o <<".sock">>, <<>>)

\* MCPServerConfig.__post_init__ raises ValueError: neither or both of
\* command and python_mcp are given.  The name is not looked at.
__post_init___raises(name, has_command, has_python_mcp) ==
    has_command = has_python_mcp

\* The configurations that can be constructed with these names.
RegConfigs ==
    { [MCPServerConfig("A", Filter(None, None), {}, {})
          EXCEPT !.name = n, !.is_python_mcp = p, !.py_tools = <<>>] :
        <<n, c, p>> \in { <<n, c, p>> \in RegNames \X BOOLEAN \X BOOLEAN :
                            ~__post_init___raises(n, c, p) } }

\* Registration and the endpoints, with names of every shape.
NextReg ==
    \/ \E config \in RegConfigs : add_server(config)
    \/ \E bind_ok \in BOOLEAN : start_proxy_server(bind_ok)
    \/ stop_proxy_server

SpecReg == Init /\ [][NextReg]_vars

\* ------------------------------------------------------------ properties
\* The handler has just finished a pass through the loop body for a message.
Handled == ev.line = "message"
\* ... and wrote a line to the client.
Written == Handled /\ Truthy(ev.reply)
\* ... after handing the request to the backend.
Forwarded == \E i \in 1..Len(ev.trace) : ev.trace[i][1] = "forward"
\* the backend of the handler's endpoint is running
BackendUp(s) == s \in DOMAIN active_processes \/ s \in DOMAIN python_servers

\* C1 (P1, correlation): for every request with id x received on an endpoint
\* and forwarded to the backend, the line written back to the client has
\* id x, whatever the method and whatever the hooks do.
C1_Correlation ==
    (Written /\ ev.msg.id \in Ids /\ Forwarded) => ev.reply.id = ev.msg.id

\* C2 (P2, notification silence): for every well-formed message without an
\* id, whatever its method and the backend kind, no line is written back.
C2_NotificationSilence ==
    (Handled /\ ev.msg.id = Absent /\ _is_valid_jsonrpc_message(ev.msg))
        => ~Truthy(ev.reply)

\* C3 (P3, JSON-RPC shape): every message written to a client has
\* jsonrpc = "2.0", has an id and has exactly one of result / error.
C3_ResponseShape ==
    Written => /\ ev.reply.jsonrpc = "2.0"
               /\ ev.reply.id # Absent
               /\ ev.reply.body \in {"result", "error"}

\* The connections inside a message loop.
InLoop == {c \in Conns : conn[c].pc \in {"loop", "read", "await"}}

\* C4 (P7, backpressure): with max_connections = N, at most N client
\* connections are inside a message loop at the same instant.
C4_Backpressure == Cardinality(InLoop) <= max_connections

\* C5 (P4, filter monotonicity): if the backend's blacklist contains t, no
\* tools/call naming t on its endpoint yields a non-error response, and no
\* tools/list reply on its endpoint contains a tool named t.
C5_FilterMonotonicity ==
    Handled =>
      /\ (ev.msg.method = "tools/call" /\ ev.msg.name \in ev.bl)
            => ~(Truthy(ev.reply) /\ ev.reply.body # "error")
      /\ (ev.msg.method = "tools/list" /\ Truthy(ev.reply))
            => \A i \in 1..Len(ev.reply.tools) :
                  ev.reply.tools[i].name \notin servers[ev.server].blacklist.val

\* A tools/list whose backend listed a blacklisted tool next to an allowed
\* one, and whose reply kept the allowed one.
C5_Witness ==
    /\ Handled
    /\ ev.msg.method = "tools/list"
    /\ HasResult(ev.fwd)
    /\ \E i \in 1..Len(ev.fwd.tools) :
          ev.fwd.tools[i].name \in servers[ev.server].blacklist.val
    /\ ev.reply.tools # <<>>

\* C6 (P5, interceptor composition): for a tools/call, when the tool-specific
\* before-hook returns block, neither the wildcard before-hook nor the
\* backend's forward is invoked for that request.
C6_SpecificBlockStops ==
    (/\ Handled
     /\ ev.msg.method = "tools/call"
     /\ ev.trace # <<>>
     /\ ev.trace[1] = <<"before", ev.msg.name, "block">>)
        => \A i \in 2..Len(ev.trace) :
              /\ ev.trace[i][1] # "forward"
              /\ ~(ev.trace[i][1] = "before" /\ ev.trace[i][2] = "*")

\* The specific hook blocked a call on an endpoint that also has a wildcard
\* before-hook and a running backend.
C6_Witness ==
    /\ Handled
    /\ ev.trace # <<>>
    /\ ev.trace[1] = <<"before", ev.msg.name, "block">>
    /\ "*" \in servers[ev.server].intercept_before
    /\ BackendUp(ev.server)
    /\ ev.reply.code = -32001

\* C7 (P6, endpoint isolation): every message received on an endpoint is
\* forwarded only to that endpoint's backend, and a tools/list reply holds
\* only tools that backend returned.
C7_EndpointIsolation ==
    /\ \A pid \in Pids : \A i \in 1..Len(procs[pid].stdin) :
          procs[pid].stdin[i].src = procs[pid].server
    /\ \A c \in Conns : conn[c].pc = "await" => procs[conn[c].pid].server = conn[c].server
    /\ Handled =>
         /\ \A i \in 1..Len(ev.trace) :
               ev.trace[i][1] = "forward" => ev.trace[i][2] = ev.server
         /\ ev.raw # NoneMsg => ev.raw.src = ev.server
         /\ Truthy(ev.fwd) => ev.fwd.src \in {ev.server, Proxy}
         /\ (ev.msg.method = "tools/list" /\ Truthy(ev.reply))
               => \A i \in 1..Len(ev.reply.tools) :
                     ev.reply.tools[i].origin = ev.server

\* A tools/list answered on the endpoint of the external backend with a
\* non-empty list while the embedded backend is running too.
C7_Witness ==
    /\ Handled
    /\ ev.server = "A"
    /\ ev.msg.method = "tools/list"
    /\ Forwarded
    /\ ev.reply.tools # <<>>
    /\ "B" \in DOMAIN python_servers

\* C8: forward is serialized per external backend: at most one connection
\* at a time is between the write of its request and the read of the
\* response on the same child, and the line a forward reads answers the
\* request that forward wrote.
C8_ForwardSerialized ==
    /\ \A c1, c2 \in Conns :
         (c1 # c2 /\ conn[c1].pc = "await" /\ conn[c2].pc = "await")
             => conn[c1].pid # conn[c2].pid
    /\ (Handled /\ ev.raw # NoneMsg) => ev.raw.ans = ev.conn

\* C9: within one connection the handler does not read the next message
\* until the pass for the current one is finished (its reply, if any,
\* written), so replies appear in the order of their requests.
C9_InOrder ==
    [][\A c \in Conns :
          /\ conn[c].pc = "await"
                => \/ conn'[c] = conn[c]
                   \/ /\ conn'[c].pc = "loop"
                      /\ ev'.conn = c /\ ev'.line = "message"
                      /\ ev'.msg = conn[c].msg
          /\ (conn'[c].pc = "await" /\ conn[c].pc # "await")
                => (conn[c].pc = "read" /\ ev' = NoEvent)]_vars

\* A forward that waited for the child, read its line and wrote the reply.
C9_Witness ==
    /\ Written
    /\ ev.raw # NoneMsg
    /\ ev.reply.id = ev.msg.id

\* C10 (access filter decision): for every registered backend and tool,
\* is_tool_allowed denies iff the blacklist is set and contains the tool or
\* the whitelist is set and does not contain it; so a whitelist set to the
\* empty list allows no tool.
C10_FilterDecision ==
    \A s \in DOMAIN servers, t \in Tools :
        is_tool_allowed(servers, s, t)
            = ~( \/ servers[s].blacklist.present /\ t \in servers[s].blacklist.val
                 \/ servers[s].whitelist.present /\ t \notin servers[s].whitelist.val )

\* The configuration of the endpoint the handler serves.
EvConfig == servers[ev.server]
\* No hook is configured on the handler's endpoint.
NoHooks == EvConfig.intercept_before = {} /\ EvConfig.intercept_after = {}

\* C11 (embedded round trip): for a running embedded backend that exposes
\* tool t, with no filter denial and no hooks, a tools/call with id x naming
\* t is answered with a response with id x that carries a result, not an
\* error.
C11_EmbeddedRoundTrip ==
    (/\ Handled
     /\ ev.server \in DOMAIN python_servers
     /\ ev.msg.method = "tools/call" /\ ev.msg.id \in Ids
     /\ \E i \in 1..Len(python_servers[ev.server]) :
           python_servers[ev.server][i].name = ev.msg.name
     /\ is_tool_allowed(servers, ev.server, ev.msg.name)
     /\ NoHooks)
        => (Truthy(ev.reply) /\ ev.reply.id = ev.msg.id /\ ev.reply.body = "result")

\* The handler's forward ended without an answer of the backend: the timed
\* read returned nothing, or the write to the child failed (lines 1123-1132).
BackendSilent ==
    /\ Handled
    /\ ev.req # NoneMsg
    /\ ev.fwd.src = Proxy /\ ev.fwd.body = "error" /\ ev.fwd.code = -32003

\* C12: for a tools/call with id that passes the access filter and the
\* before pipeline, if the backend produces no response within the timeout
\* (or the write to it fails), the reply written to the client is an error
\* -32003 with the request's id, whatever after-hooks are configured.
C12_TimeoutReply ==
    (BackendSilent /\ ev.msg.method = "tools/call" /\ ev.msg.id \in Ids)
        => /\ Truthy(ev.reply)
           /\ ev.reply.body = "error" /\ ev.reply.code = -32003
           /\ ev.reply.id = ev.msg.id

\* The before pipeline of the handled request returned None: one of its
\* hooks returned block or raised.
BeforeBlocked ==
    \E i \in 1..Len(ev.trace) :
        ev.trace[i][1] = "before" /\ ev.trace[i][3] \in {"block", "raise"}

\* C13: whenever the before pipeline blocks a tools/call (the specific or
\* the wildcard hook returns block, or either raises), the client receives
\* an error -32001 carrying the request's id and the backend's forward is
\* not invoked for that request.
C13_BeforeBlock ==
    (Handled /\ ev.msg.method = "tools/call" /\ ev.msg.id \in Ids /\ BeforeBlocked)
        => /\ Truthy(ev.reply)
           /\ ev.reply.body = "error" /\ ev.reply.code = -32001
           /\ ev.reply.id = ev.msg.id
           /\ ~Forwarded
           /\ ev.fwd = NoneMsg

\* The wildcard before-hook raised, after the specific hook had passed the
\* request on, on an endpoint whose backend is running.
C13_Witness ==
    /\ Handled
    /\ ev.msg.id \in Ids
    /\ Len(ev.trace) = 2
    /\ ev.trace[1] = <<"before", ev.msg.name, "ok">>
    /\ ev.trace[2] = <<"before", "*", "raise">>
    /\ BackendUp(ev.server)
    /\ ev.reply.code = -32001

\* The objects among S that a hook returned normally (neither None nor an
\* exception).
Returned(S) == {o \in S : HookOutcome(o) = "ok"}

\* What applying the tool-specific after-hook (if any) and then the wildcard
\* after-hook (if any) to r can give, each hook receiving the previous output.
AfterComposition(r, hooks, tool_name) ==
    LET first == IF tool_name \in hooks THEN Returned(AfterHookResults(r)) ELSE {r}
    IN IF "*" \in hooks
       THEN UNION {Returned(AfterHookResults(o)) : o \in first}
       ELSE first

\* The after-hooks invoked for the handled request, in order.
AfterTrace == SelectSeq(ev.trace, LAMBDA e : e[1] = "after")

\* The after pipeline of the handled request returned None.
AfterBlocked ==
    \E i \in 1..Len(ev.trace) :
        ev.trace[i][1] = "after" /\ ev.trace[i][3] \in {"block", "raise"}

\* The handler's forward returned a response of the backend itself.
BackendAnswered == Handled /\ Truthy(ev.fwd) /\ ev.fwd.src = ev.server

C16_InitializePassThrough ==
    (/\ BackendAnswered
     /\ ev.msg.method = "initialize" /\ ev.msg.id \in Ids
     /\ _is_valid_jsonrpc_response(ev.fwd)
     /\ ev.fwd.id = ev.msg.id)
        => ev.reply = ev.fwd

\* C17: register (add_server) of a config whose name is already in the
\* registry fails and leaves the registry unchanged: the config registered
\* first under a name is kept.
C17_RegisterKeepsFirst ==
    [][\A n \in DOMAIN servers :
          n \in DOMAIN servers' /\ servers'[n] = servers[n]]_vars


\* A step of auto_start_servers that starts a backend: a child process is
\* spawned or a handler is constructed.
StartupStartsBackend ==
    /\ ctl.pc = "backends"
    /\ ctl' # ctl
    /\ <<active_processes, python_servers, procs>>' #
           <<active_processes, python_servers, procs>>

\* C18: during startup no backend (child process or embedded handler) is
\* started before every registered backend has its listener bound and its
\* accept worker running.
C18_EndpointsBeforeBackends ==
    [][StartupStartsBackend => DOMAIN servers \subseteq server_listeners]_vars

\* Every backend marked for auto-start is running.
AllAutoRunning == \A n \in AutoStartNames : AlreadyRunning(n)

\* A step of the controller inside auto_start_servers, its call included.
StartupStep == ctl' # ctl /\ "backends" \in {ctl.pc, ctl'.pc}

\* C19: startup is idempotent: a call of auto_start_servers made while the
\* proxy is running and every auto-start backend is running changes neither
\* the scratch directory, nor the listeners and the running flag of their
\* accept workers, nor the child processes, nor the handlers.
C19_StartupIdempotent ==
    [][(StartupStep /\ running /\ AllAutoRunning)
          => /\ UNCHANGED <<running, server_listeners, active_processes,
                            python_servers, procs>>
             /\ ctl'.temp_dir = ctl.temp_dir]_vars

\* A second startup has gone through every backend, an external and an
\* embedded one, which the first had started.
C19_Witness ==
    /\ ctl.pc = "backends" /\ ctl.again /\ ctl.todo = {}
    /\ AutoStartNames = Names
    /\ running /\ AllAutoRunning

\* The live child processes spawned for a backend.
LiveChildren(n) == {pid \in Pids : procs[pid].server = n /\ procs[pid].alive}

\* C20: start_backend (start_server) is idempotent per backend: called on a
\* backend that is running it spawns no other child, so at all times a
\* backend has at most one live child process, the one registered for it
\* (its handler, kept under its name in python_servers, is one at most).
C20_AtMostOneLive ==
    \A n \in Names :
       /\ Cardinality(LiveChildren(n)) <= 1
       /\ \A pid \in LiveChildren(n) :
             n \in DOMAIN active_processes /\ active_processes[n] = pid

\* start_server has just been called, by a second startup, on an external
\* backend that was running: its one child is the one it had.
C20_Witness ==
    /\ ctl.pc = "backends" /\ ctl.again
    /\ \E n \in AutoStartNames \ ctl.todo :
          /\ ~servers[n].is_python_mcp
          /\ AlreadyRunning(n)
          /\ LiveChildren(n) = {active_processes[n]}

\* C21: stop_backend (stop_server) sends kill only to a child that is still
\* alive a second after terminate; when it returns the backend is not
\* running: it has no live child, no handler, get_status reports it not
\* running, and another call has nothing left to stop.
C21_StopBackend ==
    [][\A n \in Names, heeds_term \in BOOLEAN :
          stop_server(n, heeds_term) =>
             /\ \A pid \in Pids :
                   (procs'[pid].killed /\ ~procs[pid].killed)
                      => (procs[pid].alive /\ ~heeds_term)
             /\ n \notin DOMAIN python_servers'
             /\ n \notin DOMAIN active_processes'
             /\ LiveChildren(n)' = {}
             /\ (n \in DOMAIN servers => ~AlreadyRunning(n)')]_vars

\* C22: shutdown (cleanup) can be called in any state, and when it returns no
\* listener is open, no socket file and no scratch directory is left, no
\* backend is running (no live child, no handler) and the proxy is not
\* running.
C22_ShutdownLeavesNothing ==
    [][cleanup_return =>
          /\ ~running' /\ server_listeners' = {}
          /\ ctl'.temp_dir = 0
          /\ python_servers' = <<>> /\ active_processes' = <<>>
          /\ \A pid \in Pids : ~procs'[pid].alive]_vars

\* The line read for the request was printed by the child for an earlier
\* request, one whose forward had ended without reading it.
ReadLateLine == Handled /\ ev.late /\ Truthy(ev.raw)

\* C23: per-request failures are local to the request: a request with an id
\* that follows a failed one on an external backend is not answered with an
\* error made by the proxy out of the late response to the earlier request.
C23_FailureIsLocal ==
    (ReadLateLine /\ ev.msg.id \in Ids
       /\ _is_valid_jsonrpc_response(ev.raw) /\ ev.raw.id # ev.msg.id)
        => ~(Truthy(ev.fwd) /\ ev.fwd.src = Proxy /\ ev.fwd.body = "error")

\* The handler has just taken a line that parses as a JSON object.
TookObject == ev.line \in {"message", "raised"}

\* C24: the connection survives every per-request failure: a line that
\* parses as a JSON object, whatever its params, its method and the fate of
\* its request, never makes the handler leave the message loop.
C24_ConnectionSurvives ==
    \A c \in Conns : (TookObject /\ ev.conn = c) => conn[c].pc # "break"

\* The endpoint's backend is external and its child has exited since
\* start_server registered it.
ChildGone(s) ==
    /\ s \notin DOMAIN python_servers
    /\ s \in DOMAIN active_processes
    /\ ~procs[active_processes[s]].alive

\* No hook invoked for the handled request returned None or raised.
NothingBlocked ==
    \A i \in 1..Len(ev.trace) : ev.trace[i][3] = "ok"

\* C25: lazy crash detection: once the child of an external backend has
\* exited, a tools/call with id that is allowed and not blocked, and a
\* well-formed request with id of another method, are answered with an error
\* -32003 carrying the request's id.
C25_CrashReported ==
    (/\ Handled /\ ChildGone(ev.server)
     /\ ev.msg.id \in Ids /\ _is_valid_jsonrpc_message(ev.msg)
     /\ ev.msg.method \notin {"initialize", "tools/list"}
     /\ ev.req # NoneMsg /\ NothingBlocked)
        => /\ Truthy(ev.reply)
           /\ ev.reply.body = "error" /\ ev.reply.code = -32003
           /\ ev.reply.id = ev.msg.id

\* The handler has just read a line that is not valid JSON or is longer than
\* max_message_bytes.
ProtocolError == ev.line \in {"invalid_json", "oversized"}

\* C26: client protocol error: on a line that is not valid JSON or is longer
\* than max_message_bytes the handler leaves the loop for the close of the
\* connection, writes nothing to the client and hands nothing to a backend.
C26_ProtocolErrorCloses ==
    [][ProtocolError' =>
          /\ conn'[ev'.conn].pc = "break"
          /\ ~Truthy(ev'.reply) /\ ev'.trace = <<>>
          /\ UNCHANGED <<procs, python_servers>>]_vars

\* Such a line has come on an endpoint whose backend is running.
C26_Witness ==
    /\ ProtocolError /\ BackendUp(ev.server)
    /\ conn[ev.conn].pc = "break"

\* C27: request validation: a parsed message that is structurally invalid
\* JSON-RPC is answered with an error -32600 carrying its id when it has one
\* and with nothing when it has none, whatever its method, and it is not
\* delivered to the backend.
C27_InvalidRequestRejected ==
    (Handled /\ ~_is_valid_jsonrpc_message(ev.msg))
        => /\ ~Forwarded
           /\ IF ev.msg.id \in Ids
              THEN /\ Truthy(ev.reply)
                   /\ ev.reply.body = "error" /\ ev.reply.code = -32600
                   /\ ev.reply.id = ev.msg.id
              ELSE ~Truthy(ev.reply)

\* A step of auto_start_servers in which start_server fails for n: its child
\* exits at once, Popen raises or the wrapper cannot be constructed.
StartFails(n) ==
    /\ ctl.pc = "backends" /\ n \in ctl.todo /\ ctl' # ctl
    /\ n \notin ctl'.todo
    /\ ~AlreadyRunning(n) /\ ~AlreadyRunning(n)'

\* C28: when an auto-start backend fails to start it is left not running,
\* the loop of startup goes on with every other auto-start backend that is
\* still to be started, and the endpoints, the failed backend's among them,
\* stay as they are.
C28_StartFailureIsLocal ==
    [][\A n \in Names :
          StartFails(n) =>
             /\ ctl'.pc = "backends" /\ ctl'.todo = ctl.todo \ {n}
             /\ UNCHANGED <<running, server_listeners, python_servers>>
             /\ \A m \in Names \ {n} :
                   /\ (m \in DOMAIN active_processes') = (m \in DOMAIN active_processes)
                   /\ m \in DOMAIN active_processes =>
                        /\ active_processes'[m] = active_processes[m]
                        /\ procs'[active_processes[m]] = procs[active_processes[m]]]_vars

\* A startup has gone through two backends: one did not start, the other is
\* running, and both endpoints listen.
C28_Witness ==
    /\ ctl.pc = "backends" /\ ctl.todo = {} /\ ~ctl.again
    /\ running /\ server_listeners = Names
    /\ \E n, m \in AutoStartNames :
          /\ ~AlreadyRunning(n) /\ AlreadyRunning(m)
          /\ \E pid \in Pids : procs[pid].server = n /\ ~procs[pid].alive

\* auto_start_servers is in its loop after a start_proxy_server that failed
\* to bind an endpoint.
BindFailed == ctl.pc = "backends" /\ ~running

\* C29: when creating an endpoint fails during startup, what was started is
\* torn down: no listener of an earlier backend remains, and that startup
\* call starts no backend.
C29_BindFailureTearsDown ==
    [][BindFailed =>
          /\ server_listeners = {}
          /\ ctl' # ctl => UNCHANGED <<active_processes, python_servers, procs>>]_vars

\* C30: startup_with_config never writes the client configuration through a
\* destination directory that is a symlink; the file it leaves is a fully
\* written temp file renamed into place with mode 0600, and no temp file
\* stays behind.
C30_ConfigWrite ==
    /\ ~ctl.via_symlink
    /\ ctl.config_file \in {"none", "0600"}
    /\ ~ctl.tmp_file

\* C31: every backend name in the registry is non-empty and matches
\* [A-Za-z0-9_.-]+, so that the path of its endpoint is a file directly
\* inside the scratch directory.
C31_NamesAreSafe ==
    LET NameChars == {"A", "a", "b", "1", "_", ".", "-"}
        Matches(name) ==
            name # <<>> /\ \A i \in 1..Len(name) : name[i] \in NameChars
    IN \A n \in DOMAIN servers :
          /\ Matches(n)
          /\ Len(socket_path(n)) = 1

\* C32: forwarding a notification (a message without id) to an external
\* backend writes it to the child's stdin and returns: the forward reads no
\* line from the child's stdout.
C32_NotificationReadsNothing ==
    (Handled /\ Truthy(ev.req) /\ ev.req.id = Absent /\ Forwarded
       /\ ev.server \in DOMAIN active_processes)
        => ev.raw = NoneMsg

\* C33: a tools/call request with id whose params hold no tool name is
\* answered with an error -32602 carrying the request's id, and no hook and
\* no forward is invoked for it.
C33_MissingToolName ==
    (TookObject /\ ev.msg.method = "tools/call" /\ ev.msg.id \in Ids
       /\ ev.msg.name \in {Absent, NotObject})
        => /\ Truthy(ev.reply)
           /\ ev.reply.body = "error" /\ ev.reply.code = -32602
           /\ ev.reply.id = ev.msg.id
           /\ ev.trace = <<>> /\ ev.fwd = NoneMsg

\* The access filter denied the tool of the handled tools/call.
FilterDenied ==
    /\ ev.msg.method = "tools/call"
    /\ ev.msg.name \notin {Absent, NotObject}
    /\ ~is_tool_allowed(servers, ev.server, ev.msg.name)

\* C34: a reply with error code -32001 is written only when the access
\* filter denied the tool or a before/after hook blocked; a backend that is
\* not running is not reported with -32001.
C34_AccessDeniedOnly ==
    (Written /\ ev.reply.body = "error" /\ ev.reply.code = -32001)
        => (FilterDenied \/ BeforeBlocked \/ AfterBlocked)

\* The connections whose handler holds a slot of the semaphore.
\* (A handler on an exit path holds its slot until its finally block runs.)
Holding == {c \in Conns : conn[c].pc \in {"loop", "read", "await", "break"}}

\* C35: connection slots are not leaked: the free slots never exceed
\* max_connections, and whenever no handler is between its acquire and its
\* finally block (in particular when no connection is open) every slot is
\* free, so that a client refused for lack of slots is admitted once the
\* other connections have closed.
C35_SlotsNotLeaked ==
    /\ connection_semaphore \in 0..max_connections
    /\ Holding = {} => connection_semaphore = max_connections

\* With one slot, a client has been refused while the handler that holds the
\* slot is on its way out of the loop.
C35_Witness ==
    /\ max_connections = 1 /\ connection_semaphore = 0
    /\ conn[1].pc = "break" /\ conn[2].pc = "refused"

\* C36: shutdown stops the routers: once the proxy has been stopped, no
\* message a handler reads afterwards on a connection that is still open is
\* routed, forwarded or answered.
C36_ShutdownStopsRouters ==
    [][\A c \in Conns :
          (~running /\ conn[c].pc = "read")
             => /\ conn'[c].pc # "await"
                /\ ~(ev'.conn = c /\ ev'.line = "message")]_vars

\* C37: every tools/call handed to a backend names a tool that the access
\* filter allows on that backend, whatever the before-hooks made of the
\* request.
C37_DeliveredToolAllowed ==
    (Handled /\ ev.msg.method = "tools/call" /\ Forwarded /\ Truthy(ev.req))
        => /\ ev.req.method = "tools/call"
           /\ is_tool_allowed(servers, ev.server, ev.req.name)

\* How many times the hook registered under key was invoked at a stage of the
\* handled request.
Invocations(stage, key) ==
    Cardinality({i \in 1..Len(ev.trace) :
                    ev.trace[i][1] = stage /\ ev.trace[i][2] = key})

\* C38: for one tools/call each configured hook is invoked at most once per
\* stage, whatever the tool is called, the name "*" included.
C38_HookOncePerStage ==
    (Handled /\ ev.msg.method = "tools/call")
        => \A stage \in {"before", "after"}, key \in Tools \cup {"*"} :
              Invocations(stage, key) <= 1

\* C39: while the proxy is running every backend in the registry has a bound
\* listener, after any sequence of add_server, startup and start_server
\* calls; so every entry of a generated client configuration names an
\* endpoint on which a listener exists.
C39_EveryBackendListens ==
    running => DOMAIN servers \subseteq server_listeners

\* C40: every well-formed request with an id gets a reply line before the
\* handler reads the next message, whatever the access filter, the hooks and
\* the backend do, as long as the connection stays open.
C40_RequestAnswered ==
    (Handled /\ ev.msg.id \in Ids /\ _is_valid_jsonrpc_message(ev.msg))
        => Truthy(ev.reply)
====
